---- MODULE Spec2Model ----
(***************************************************************************)
(* The relationship graph of kubernetes-scraper: the graph package         *)
(* (Graph.AddNode, RemoveNode, AddRelationship, RemoveRelationship) and    *)
(* the watch handlers of package main (watchResource, updateRelationships, *)
(* removeResourceRelationships, emitGraph) with the pod and service caches.*)
(*                                                                         *)
(* A Go map[string]interface{} of labels or of a selector is a set of      *)
(* <<key, value>> pairs; a field that ToUnstructured omits (omitempty) is  *)
(* the empty string, the empty set or the empty sequence.  A node's        *)
(* Properties and the graph's private revision counter are written and     *)
(* never read by any operation: they are left out.                         *)
(***************************************************************************)
EXTENDS Integers, Sequences, FiniteSets, TLC

\* Events the watch streams deliver in one behaviour.
MaxEvents == 3

\* Events delivered in one behaviour of the end-to-end scenario.
MaxScenarioEvents == 4

\* Events delivered in one behaviour of the interleaved specification.
MaxConcEvents == 2

\* Events delivered in one behaviour of the specification with emitGraph.
MaxEmitEvents == 2

\* Events delivered in one behaviour of the specification of main.
MaxMainEvents == 1

\* Watch calls that fail in one behaviour before the context is cancelled.
MaxWatchErrors == 2

\* Events delivered in one behaviour of the specification with the locks.
MaxLockEvents == 2

NS == "default"

Kinds == {"Pod", "ReplicaSet", "Deployment", "Node", "Service", "ConfigMap"}

EntityKey(name, namespace, type) ==
    [Name |-> name, Namespace |-> namespace, Type |-> type]

\* The comparison every loop of the graph package spells out field by field.
KeyEq(a, b) ==
    a.Name = b.Name /\ a.Namespace = b.Namespace /\ a.Type = b.Type

GraphNode(key) == [Key |-> key, Revision |-> 1]

GraphRelationship(source, target, relationshipType) ==
    [Source |-> source, Target |-> target,
     RelationshipType |-> relationshipType, Revision |-> 1]

\* A slot of a freshly allocated backing array (Go zeroes it).
ZeroRel ==
    [Source |-> EntityKey("", "", ""), Target |-> EntityKey("", "", ""),
     RelationshipType |-> "", Revision |-> 0]

RelEq(rel, source, target, relationshipType) ==
    /\ KeyEq(rel.Source, source)
    /\ KeyEq(rel.Target, target)
    /\ rel.RelationshipType = relationshipType

Involves(rel, key) == KeyEq(rel.Source, key) \/ KeyEq(rel.Target, key)

(***************************************************************************)
(* The objects the watch streams carry.                                    *)
(***************************************************************************)
Obj(kind, name, namespace, nodeName, labels, ownerReferences, selector, volumes) ==
    [kind |-> kind, name |-> name, namespace |-> namespace,
     nodeName |-> nodeName, labels |-> labels,
     ownerReferences |-> ownerReferences, selector |-> selector,
     volumes |-> volumes]

OwnerRef(kind, name) == [kind |-> kind, name |-> name]

\* A volume; configMap = "" is a volume of another type (no "configMap" key).
Volume(configMap) == [configMap |-> configMap]

PodObj(name, nodeName, labels, owners) ==
    Obj("Pod", name, NS, nodeName, labels, owners, {}, <<>>)

LabelX == {<<"app", "x">>}
LabelY == {<<"app", "y">>}

PodObjs ==
    {PodObj("p1", "n1", LabelX, <<>>),
     PodObj("p1", "n1", LabelY, <<>>),
     PodObj("p1", "n2", LabelX, <<>>),
     PodObj("p1", "", {}, <<>>),
     PodObj("p1", "n1", LabelX, <<OwnerRef("ReplicaSet", "rs1")>>),
     PodObj("p1", "n1", LabelX, <<OwnerRef("ReplicaSet", "rs2")>>),
     PodObj("p2", "n1", LabelX, <<>>),
     PodObj("p2", "n1", LabelY, <<OwnerRef("Job", "j1")>>)}

ReplicaSetObjs ==
    {Obj("ReplicaSet", "rs1", NS, "", {}, <<OwnerRef("Deployment", "d1")>>, {}, <<>>),
     Obj("ReplicaSet", "rs1", NS, "", {}, <<>>, {}, <<>>)}

DeploymentObjs ==
    {Obj("Deployment", "d1", NS, "", {}, <<>>, {}, vs) :
        vs \in {<<>>, <<Volume("cm1")>>, <<Volume(""), Volume("cm2")>>}}

NodeObjs == {Obj("Node", "n1", "", "", {}, <<>>, {}, <<>>)}

ServiceObjs ==
    {Obj("Service", "svc1", NS, "", {}, <<>>, sel, <<>>) :
        sel \in {{}, LabelX, LabelY}}

ConfigMapObjs == {Obj("ConfigMap", "cm1", NS, "", {}, <<>>, {}, <<>>)}

ObjsOf(kind) ==
    CASE kind = "Pod" -> PodObjs
      [] kind = "ReplicaSet" -> ReplicaSetObjs
      [] kind = "Deployment" -> DeploymentObjs
      [] kind = "Node" -> NodeObjs
      [] kind = "Service" -> ServiceObjs
      [] kind = "ConfigMap" -> ConfigMapObjs

EventTypes == {"Added", "Modified", "Deleted"}

Event(type, obj) == [type |-> type, obj |-> obj]

NoEvent == [type |-> "", obj |-> Obj("", "", "", "", {}, <<>>, {}, <<>>)]

\* A Deleted event carries the object's last state; the handler reads its
\* name and namespace only, so one object per name is enough.
DeletedObjs(kind) ==
    {o \in ObjsOf(kind) :
        o = CHOOSE p \in ObjsOf(kind) : p.name = o.name}

EventsOf(kind) ==
    {Event(t, o) : t \in {"Added", "Modified"}, o \in ObjsOf(kind)}
        \cup {Event("Deleted", o) : o \in DeletedObjs(kind)}

AllEvents == UNION {EventsOf(k) : k \in Kinds}

\* The events of the end-to-end scenarios: node n1, pod p1 on n1 labelled
\* app=x or app=y with no owner and its deletion, service svc1 selecting
\* app=x.
ScenarioEvents ==
    {e \in AllEvents :
        \/ e.obj.kind = "Node"
        \/ e.type = "Deleted" /\ e.obj.kind = "Pod" /\ e.obj.name = "p1"
        \/ e.obj \in {PodObj("p1", "n1", LabelX, <<>>),
                       PodObj("p1", "n1", LabelY, <<>>)}
        \/ e.obj.kind = "Service" /\ e.obj.selector = LabelX}

(***************************************************************************)
(* package graph                                                           *)
(***************************************************************************)
\* The nil *GraphNode.
NilNode == [Key |-> EntityKey("", "", ""), Revision |-> 0]

\* The cases are pointer types; a struct value, as the List* calls of
\* k8sclient return, falls to the default case.
objectToGraphNode(obj) ==
    CASE obj.kind = "Pod" -> GraphNode(EntityKey(obj.name, obj.namespace, "Pod"))
      [] obj.kind = "ReplicaSet" ->
            GraphNode(EntityKey(obj.name, obj.namespace, "ReplicaSet"))
      [] obj.kind = "Deployment" ->
            GraphNode(EntityKey(obj.name, obj.namespace, "Deployment"))
      [] obj.kind = "Node" -> GraphNode(EntityKey(obj.name, "", "Node"))
      [] obj.kind = "Service" ->
            GraphNode(EntityKey(obj.name, obj.namespace, "Service"))
      [] obj.kind = "ConfigMap" ->
            GraphNode(EntityKey(obj.name, obj.namespace, "ConfigMap"))
      [] OTHER -> NilNode

\* g.Relationships: the first n slots of its backing array.
RelsOf(arr, n) == SubSeq(arr, 1, n)

\* The index of the first node with the key, or 0.
IndexOfNode(nodes, key) ==
    LET hits == {i \in 1..Len(nodes) : KeyEq(nodes[i].Key, key)}
    IN  IF hits = {} THEN 0 ELSE CHOOSE i \in hits : \A j \in hits : i <= j

\* The index of the first of the n relationships with the identity, or 0.
IndexOfRel(arr, n, source, target, relationshipType) ==
    LET hits == {i \in 1..n : RelEq(arr[i], source, target, relationshipType)}
    IN  IF hits = {} THEN 0 ELSE CHOOSE i \in hits : \A j \in hits : i <= j

\* append(s[:i], s[i+1:]...) on a slice of length n over the backing array
\* arr: the elements after i move down one slot, the slot n keeps its value.
ShiftOut(arr, n, i) ==
    [j \in 1..Len(arr) |-> IF j >= i /\ j < n THEN arr[j + 1] ELSE arr[j]]

\* The capacity append gives a slice that is full (Go doubles small slices).
GrowCap(cap) == IF cap = 0 THEN 1 ELSE 2 * cap

\* An AddNode that does not look for the key among the nodes.
AddNodeAppends(nodes, obj) ==
    LET node == objectToGraphNode(obj)
    IN  IF node = NilNode THEN nodes ELSE Append(nodes, node)

AddNode(nodes, obj) ==
    LET node == objectToGraphNode(obj)
        i == IndexOfNode(nodes, node.Key)
    IN  IF node = NilNode THEN nodes
        ELSE IF i # 0 THEN [nodes EXCEPT ![i] = node]
        ELSE Append(nodes, node)

UpdateNode(nodes, obj) == AddNode(nodes, obj)

\* RemoveNode returns as soon as it has removed the node (line 95); its loop
\* over the relationships runs only when no node has the key.
RECURSIVE RemoveInvolving(_, _, _, _)
RemoveInvolving(arr, n, key, i) ==
    IF i > n THEN [relArray |-> arr, relLen |-> n]
    ELSE IF Involves(arr[i], key)
         THEN RemoveInvolving(ShiftOut(arr, n, i), n - 1, key, i)
         ELSE RemoveInvolving(arr, n, key, i + 1)

RemoveAt(seq, i) == SubSeq(seq, 1, i - 1) \o SubSeq(seq, i + 1, Len(seq))

RemoveNode(s, obj) ==
    LET node == objectToGraphNode(obj)
        i == IndexOfNode(s.Nodes, node.Key)
        r == RemoveInvolving(s.relArray, s.relLen, node.Key, 1)
    IN  IF node = NilNode THEN s
        ELSE IF i # 0
        THEN [s EXCEPT !.Nodes = RemoveAt(s.Nodes, i)]
        ELSE [s EXCEPT !.relArray = r.relArray, !.relLen = r.relLen]

\* The workers whose range loop reads the backing array that an append is
\* about to leave behind keep reading that array (old).
IsLiveRange(w) ==
    /\ w.ops # <<>>
    /\ Head(w.ops).op = "RangeIter"
    /\ ~Head(w.ops).frozen

LeaveBehind(wk, old) ==
    [k \in DOMAIN wk |->
        IF IsLiveRange(wk[k])
        THEN [wk[k] EXCEPT !.ops =
                <<[Head(wk[k].ops) EXCEPT !.frozen = TRUE, !.old = old]>>
                    \o Tail(wk[k].ops)]
        ELSE wk[k]]

\* AddRelationship with the body of RemoveRelationship's loop in its own.
AddRelationshipDropsExisting(s, source, target, relationshipType) ==
    LET i == IndexOfRel(s.relArray, s.relLen, source, target, relationshipType)
        new == GraphRelationship(source, target, relationshipType)
    IN  IF i # 0
        THEN [s EXCEPT !.relArray = ShiftOut(s.relArray, s.relLen, i),
                       !.relLen = @ - 1]
        ELSE [s EXCEPT !.relArray = RelsOf(s.relArray, s.relLen) \o <<new>>,
                       !.relLen = @ + 1]

\* AddRelationship without its loop over the relationships it has.
AddRelationshipAppends(s, source, target, relationshipType) ==
    LET new == GraphRelationship(source, target, relationshipType)
    IN  [s EXCEPT !.relArray = RelsOf(s.relArray, s.relLen) \o <<new>>,
                  !.relLen = @ + 1]

AddRelationship(s, source, target, relationshipType) ==
    LET i == IndexOfRel(s.relArray, s.relLen, source, target, relationshipType)
        new == GraphRelationship(source, target, relationshipType)
        cap == Len(s.relArray)
    IN  IF i # 0
        THEN [s EXCEPT !.relArray[i].Revision = @ + 1]
        ELSE IF s.relLen < cap
        THEN [s EXCEPT !.relArray[s.relLen + 1] = new, !.relLen = @ + 1]
        ELSE [s EXCEPT
                !.relArray = [j \in 1..GrowCap(cap) |->
                                IF j <= s.relLen THEN s.relArray[j]
                                ELSE IF j = s.relLen + 1 THEN new ELSE ZeroRel],
                !.relLen = @ + 1,
                !.wk = LeaveBehind(s.wk, s.relArray)]

\* RemoveRelationship that shifts the elements and keeps the length.
RemoveRelationshipKeepsLength(s, source, target, relationshipType) ==
    LET i == IndexOfRel(s.relArray, s.relLen, source, target, relationshipType)
    IN  IF i # 0
        THEN [s EXCEPT !.relArray = ShiftOut(s.relArray, s.relLen, i)]
        ELSE s

RemoveRelationship(s, source, target, relationshipType) ==
    LET i == IndexOfRel(s.relArray, s.relLen, source, target, relationshipType)
    IN  IF i # 0
        THEN [s EXCEPT !.relArray = ShiftOut(s.relArray, s.relLen, i),
                       !.relLen = @ - 1]
        ELSE s

(***************************************************************************)
(* package main: the handler of one watch event, as the sequence of its    *)
(* steps.  A step is one call that takes a lock (a graph method, a cache   *)
(* update) or one iteration of removeResourceRelationships' loop.          *)
(***************************************************************************)
AddNodeOp(obj) == [op |-> "AddNode", obj |-> obj]
UpdateNodeOp(obj) == [op |-> "UpdateNode", obj |-> obj]
RemoveNodeOp(obj) == [op |-> "RemoveNode", obj |-> obj]
AddRelOp(source, target, type) ==
    [op |-> "AddRel", source |-> source, target |-> target, type |-> type]
RemoveRelOp(source, target, type) ==
    [op |-> "RemoveRel", source |-> source, target |-> target, type |-> type]
ScanOp(obj) == [op |-> "Scan", obj |-> obj]
RUnlockOp == [op |-> "RUnlock"]
CachePutOp(cache, obj) == [op |-> "CachePut", cache |-> cache, obj |-> obj]
CacheDelOp(cache, key) == [op |-> "CacheDel", cache |-> cache, key |-> key]
RangeStartOp(key) == [op |-> "RangeStart", key |-> key]
RangeIterOp(key, i, n) ==
    [op |-> "RangeIter", key |-> key, i |-> i, n |-> n,
     frozen |-> FALSE, old |-> <<>>]

\* fmt.Sprintf("%s/%s", namespace, name)
CacheKey(namespace, name) == <<namespace, name>>

CacheKeyOf(obj) == CacheKey(obj.namespace, obj.name)

\* cache[key] = obj on a cache held as the set of its values.
CachePut(cache, obj) ==
    {o \in cache : CacheKeyOf(o) # CacheKeyOf(obj)} \cup {obj}

CacheDelete(cache, key) == {o \in cache : CacheKeyOf(o) # key}

\* for key, value := range selector { if podLabels[key] != value ... }
Matches(selector, podLabels) == \A kv \in selector : kv \in podLabels

\* The orders in which a range over the map podCache can visit the pods.
Orders(cache) ==
    {f \in [1..Cardinality(cache) -> cache] :
        \A i, j \in 1..Cardinality(cache) : f[i] = f[j] => i = j}

OwnedByOps(obj, name, namespace, selfType, ownerKind) ==
    LET IsOwner(ref) == ref.kind = ownerKind
        refs == SelectSeq(obj.ownerReferences, IsOwner)
    IN  [i \in 1..Len(refs) |->
            AddRelOp(EntityKey(name, namespace, selfType),
                     EntityKey(refs[i].name, namespace, ownerKind),
                     "owned_by")]

RunsOnOps(obj, name, namespace) ==
    IF obj.nodeName # ""
    THEN <<AddRelOp(EntityKey(name, namespace, "Pod"),
                    EntityKey(obj.nodeName, "", "Node"), "runs_on")>>
    ELSE <<>>

UsesOps(obj, name, namespace) ==
    LET HasConfigMap(vol) == vol.configMap # ""
        vols == SelectSeq(obj.volumes, HasConfigMap)
    IN  [i \in 1..Len(vols) |->
            AddRelOp(EntityKey(name, namespace, "Deployment"),
                     EntityKey(vols[i].configMap, namespace, "ConfigMap"),
                     "uses")]

\* The body of the Service case's loop for one pod of the cache.
TargetsOp(obj, name, namespace, pod) ==
    IF Matches(obj.selector, pod.labels)
    THEN AddRelOp(EntityKey(name, namespace, "Service"),
                  EntityKey(pod.name, pod.namespace, "Pod"), "targets")
    ELSE RemoveRelOp(EntityKey(name, namespace, "Service"),
                     EntityKey(pod.name, pod.namespace, "Pod"), "targets")

updateRelationships(obj, resourceType, name, namespace) ==
    CASE resourceType = "Pod" ->
            RunsOnOps(obj, name, namespace)
                \o OwnedByOps(obj, name, namespace, "Pod", "ReplicaSet")
      [] resourceType = "ReplicaSet" ->
            OwnedByOps(obj, name, namespace, "ReplicaSet", "Deployment")
      [] resourceType = "Service" ->
            IF obj.selector # {} THEN <<ScanOp(obj)>> ELSE <<>>
      [] resourceType = "Deployment" -> UsesOps(obj, name, namespace)
      [] OTHER -> <<>>

\* A cache update that does not look at the kind of the resource.
CacheUpsertOpsOfAnyKind(obj, resourceType) == <<CachePutOp("pod", obj)>>

CacheUpsertOps(obj, resourceType) ==
    CASE resourceType = "Pod" -> <<CachePutOp("pod", obj)>>
      [] resourceType = "Service" -> <<CachePutOp("service", obj)>>
      [] OTHER -> <<>>

CacheDeleteOps(resourceType, name, namespace) ==
    CASE resourceType = "Pod" -> <<CacheDelOp("pod", CacheKey(namespace, name))>>
      [] resourceType = "Service" ->
            <<CacheDelOp("service", CacheKey(namespace, name))>>
      [] OTHER -> <<>>

\* The switch of watchResource on event.Type.
HandlerOps(ev, resourceType) ==
    LET obj == ev.obj
        name == obj.name
        namespace == obj.namespace
    IN  CASE ev.type = "Added" ->
                <<AddNodeOp(obj)>>
                    \o updateRelationships(obj, resourceType, name, namespace)
                    \o CacheUpsertOps(obj, resourceType)
          [] ev.type = "Modified" ->
                <<UpdateNodeOp(obj)>>
                    \o updateRelationships(obj, resourceType, name, namespace)
                    \o CacheUpsertOps(obj, resourceType)
          [] ev.type = "Deleted" ->
                <<RemoveNodeOp(obj),
                  RangeStartOp(EntityKey(name, namespace, resourceType))>>
                    \o CacheDeleteOps(resourceType, name, namespace)

\* The Service case's loop over podCache, visited in the given order.
ScanOps(obj, order) ==
    [i \in 1..Len(order) |-> TargetsOp(obj, obj.name, obj.namespace, order[i])]

\* One iteration of removeResourceRelationships' loop: rel is read from the
\* array the loop started on, and removed by identity when it involves key.
RangeIter(s, k, o) ==
    LET arr == IF o.frozen THEN o.old ELSE s.relArray
        rel == arr[o.i]
        u == IF Involves(rel, o.key)
             THEN RemoveRelationship(s, rel.Source, rel.Target,
                                     rel.RelationshipType)
             ELSE s
    IN  IF o.i >= o.n
        THEN [u EXCEPT !.wk[k].ops = Tail(@)]
        ELSE [u EXCEPT !.wk[k].ops[1].i = o.i + 1]

\* What json.MarshalIndent(g) writes: the exported fields of the graph.
GraphOf(s) == [Nodes |-> s.Nodes, Relationships |-> RelsOf(s.relArray, s.relLen)]

NoGraph == [Nodes |-> <<>>, Relationships |-> <<>>]

\* A worker blocked in the select of watchResource.
Idle == [ev |-> NoEvent, ops |-> <<>>, pre |-> NoGraph, alone |-> FALSE]

\* The next step of worker k's handler, from state s.
StepOp(s, k, order) ==
    LET o == Head(s.wk[k].ops)
        t == [s EXCEPT !.wk[k].ops = Tail(@)]
    IN  CASE o.op = "AddNode" -> [t EXCEPT !.Nodes = AddNode(@, o.obj)]
          [] o.op = "UpdateNode" -> [t EXCEPT !.Nodes = UpdateNode(@, o.obj)]
          [] o.op = "RemoveNode" -> RemoveNode(t, o.obj)
          [] o.op = "AddRel" -> AddRelationship(t, o.source, o.target, o.type)
          [] o.op = "RemoveRel" ->
                RemoveRelationship(t, o.source, o.target, o.type)
          [] o.op = "Scan" ->
                [t EXCEPT !.readers = @ \cup {k},
                          !.wk[k].ops = ScanOps(o.obj, order) \o <<RUnlockOp>> \o @]
          [] o.op = "RUnlock" -> [t EXCEPT !.readers = @ \ {k}]
          [] o.op = "CachePut" ->
                IF o.cache = "pod"
                THEN [t EXCEPT !.podCache = CachePut(@, o.obj)]
                ELSE [t EXCEPT !.serviceCache = CachePut(@, o.obj)]
          [] o.op = "CacheDel" ->
                IF o.cache = "pod"
                THEN [t EXCEPT !.podCache = CacheDelete(@, o.key)]
                ELSE [t EXCEPT !.serviceCache = CacheDelete(@, o.key)]
          [] o.op = "RangeStart" ->
                IF s.relLen = 0 THEN t
                ELSE [t EXCEPT !.wk[k].ops =
                        <<RangeIterOp(o.key, 1, s.relLen)>> \o @]
          [] o.op = "RangeIter" -> RangeIter(s, k, o)

\* After the last step of its case the worker is back in the select.
Step(s, k, order) ==
    LET r == StepOp(s, k, order)
    IN  IF r.wk[k].ops = <<>> THEN [r EXCEPT !.wk[k] = Idle] ELSE r

\* cacheMutex.Lock() waits for the readers to leave.
CanStep(s, k) ==
    /\ s.wk[k].ops # <<>>
    /\ Head(s.wk[k].ops).op \in {"CachePut", "CacheDel"} => s.readers = {}

\* The handler of an event run to its end with no other worker in between.
RECURSIVE Run(_, _, _)
Run(s, k, order) ==
    IF s.wk[k].ops = <<>> THEN s ELSE Run(Step(s, k, order), k, order)

\* Worker k takes ev from its watcher's result channel.  pre and alone
\* record the graph at that moment and whether no other worker has been
\* handling an event since.
Receive(s, k, ev) ==
    [s EXCEPT !.wk =
        [j \in Kinds |->
            IF j = k
            THEN [ev |-> ev, ops |-> HandlerOps(ev, k), pre |-> GraphOf(s),
                  alone |-> \A i \in Kinds \ {k} : s.wk[i].ops = <<>>]
            ELSE IF s.wk[j].ops # <<>> THEN [s.wk[j] EXCEPT !.alone = FALSE]
            ELSE s.wk[j]]]

HandleEvent(s, ev, order) == Run(Receive(s, ev.obj.kind, ev), ev.obj.kind, order)

(***************************************************************************)
(* State                                                                   *)
(***************************************************************************)
VARIABLES
    Nodes,          \* g.Nodes
    relArray,       \* the backing array of g.Relationships
    relLen,         \* len(g.Relationships)
    podCache,
    serviceCache,
    readers,        \* the workers holding cacheMutex.RLock()
    wk,             \* per kind: the event in hand and the handler's steps left
    last,           \* the event received last
    repeated,       \* whether that event is the one received before it
    nEvents,        \* the events received so far
    emitted,        \* what emitGraph marshalled, and the state it did so in
    proc            \* main, the context, and where each goroutine is

vars == <<Nodes, relArray, relLen, podCache, serviceCache, readers, wk, last,
          repeated, nEvents, emitted, proc>>

State ==
    [Nodes |-> Nodes, relArray |-> relArray, relLen |-> relLen,
     podCache |-> podCache, serviceCache |-> serviceCache,
     readers |-> readers, wk |-> wk]

Becomes(s) ==
    /\ Nodes' = s.Nodes
    /\ relArray' = s.relArray
    /\ relLen' = s.relLen
    /\ podCache' = s.podCache
    /\ serviceCache' = s.serviceCache
    /\ readers' = s.readers
    /\ wk' = s.wk

Relationships == RelsOf(relArray, relLen)

NoSnapshot == [taken |-> FALSE, graph |-> NoGraph, at |-> <<>>]

\* What a List* call of k8sclient returns: the items or an error.
ListResult(err, items) == [err |-> err, items |-> items]

\* An item of a List* result: result[i] = pod copies the struct, so the
\* interface holds a value (corev1.Pod), not a pointer and not a map.
StructValue(obj) == [kind |-> "struct", of |-> obj]

ListOf(objs) == ListResult(FALSE, [i \in 1..Len(objs) |-> StructValue(objs[i])])

ListFails == ListResult(TRUE, <<>>)

NoLists == [k \in Kinds |-> ListResult(FALSE, <<>>)]

\* main after listAllResources, with watchAllResources and emitGraph
\* started and every watch call returned: the workers are in their select.
\* delay[k] is the number of seconds worker k last slept for since a watch
\* call of its own last succeeded, 0 when it has not slept since.  mu and
\* cacheWriter are the workers inside g.mu.Lock() and cacheMutex.Lock().
Watching ==
    [main |-> "waiting", cancelled |-> FALSE,
     pc |-> [k \in Kinds |-> "watching"], emitter |-> "ticking",
     lists |-> NoLists, called |-> {}, watchErrors |-> 0,
     delay |-> [k \in Kinds |-> 0],
     mu |-> "none", cacheWriter |-> "none"]

Init ==
    /\ Nodes = <<>>
    /\ relArray = <<>>
    /\ relLen = 0
    /\ podCache = {}
    /\ serviceCache = {}
    /\ readers = {}
    /\ wk = [k \in Kinds |-> Idle]
    /\ last = NoEvent
    /\ repeated = FALSE
    /\ nEvents = 0
    /\ emitted = NoSnapshot
    /\ proc = Watching

\* One event handled from the receive to the end of its case.
Handled(ev, order) ==
    /\ Becomes(HandleEvent(State, ev, order))
    /\ last' = ev
    /\ repeated' = (ev = last)
    /\ nEvents' = nEvents + 1
    /\ UNCHANGED <<emitted, proc>>

OfType(events, type) == {e \in events : e.type = type}

Added ==
    /\ nEvents < MaxEvents
    /\ \E ev \in OfType(AllEvents, "Added") :
       \E order \in Orders(podCache) : Handled(ev, order)

Modified ==
    /\ nEvents < MaxEvents
    /\ \E ev \in OfType(AllEvents, "Modified") :
       \E order \in Orders(podCache) : Handled(ev, order)

Deleted ==
    /\ nEvents < MaxEvents
    /\ \E ev \in OfType(AllEvents, "Deleted") :
       \E order \in Orders(podCache) : Handled(ev, order)

Next == Added \/ Modified \/ Deleted

Spec == Init /\ [][Next]_vars

ScenarioAdded ==
    /\ nEvents < MaxScenarioEvents
    /\ \E ev \in OfType(ScenarioEvents, "Added") :
       \E order \in Orders(podCache) : Handled(ev, order)

ScenarioModified ==
    /\ nEvents < MaxScenarioEvents
    /\ \E ev \in OfType(ScenarioEvents, "Modified") :
       \E order \in Orders(podCache) : Handled(ev, order)

ScenarioDeleted ==
    /\ nEvents < MaxScenarioEvents
    /\ \E ev \in OfType(ScenarioEvents, "Deleted") :
       \E order \in Orders(podCache) : Handled(ev, order)

NextScenario == ScenarioAdded \/ ScenarioModified \/ ScenarioDeleted

SpecScenario == Init /\ [][NextScenario]_vars

(***************************************************************************)
(* The six workers of watchAllResources and emitGraph, step by step.       *)
(***************************************************************************)
\* The events of the interleaved specifications: pod p1, node n1, service
\* svc1 and replica set rs1.
ConcEvents == {e \in AllEvents : e.obj.name \in {"p1", "n1", "svc1", "rs1"}}

\* A receive that does not wait for the end of the case in hand.
WatchedWhileHandling(ev) ==
    /\ Becomes(Receive(State, ev.obj.kind, ev))
    /\ last' = ev
    /\ repeated' = (ev = last)
    /\ nEvents' = nEvents + 1
    /\ UNCHANGED <<emitted, proc>>

\* case event, ok := <-watcher.ResultChan()
Watched(ev) ==
    /\ proc.pc[ev.obj.kind] = "watching"
    /\ wk[ev.obj.kind].ops = <<>>
    /\ Becomes(Receive(State, ev.obj.kind, ev))
    /\ last' = ev
    /\ repeated' = (ev = last)
    /\ nEvents' = nEvents + 1
    /\ UNCHANGED <<emitted, proc>>

WatchEvent ==
    /\ nEvents < MaxConcEvents
    /\ \E ev \in ConcEvents : Watched(ev)

\* One step of the case of event.Type in one of the workers.
HandlerStep ==
    /\ \E k \in Kinds :
        /\ CanStep(State, k)
        /\ \E order \in Orders(podCache) : Becomes(Step(State, k, order))
    /\ UNCHANGED <<last, repeated, nEvents, emitted, proc>>

NextConc == WatchEvent \/ HandlerStep

SpecConc == Init /\ [][NextConc]_vars

WatchEventBeforeEmit ==
    /\ nEvents < MaxEmitEvents
    /\ \E ev \in ConcEvents : Watched(ev)

\* case <-ticker.C: json.MarshalIndent(g, "", "  ")
emitGraph ==
    /\ proc.emitter = "ticking"
    /\ ~emitted.taken
    /\ emitted' = [taken |-> TRUE, graph |-> GraphOf(State), at |-> State]
    /\ UNCHANGED <<Nodes, relArray, relLen, podCache, serviceCache, readers,
                   wk, last, repeated, nEvents, proc>>

NextEmit == WatchEventBeforeEmit \/ HandlerStep \/ emitGraph

SpecEmit == Init /\ [][NextEmit]_vars

(***************************************************************************)
(* main: the listing, the start of the workers and of emitGraph, the watch *)
(* calls and the cancellation of the context.                              *)
(***************************************************************************)
\* The order of the List* calls of listAllResources.
ListOrder == <<"Pod", "ReplicaSet", "Deployment", "Node", "Service", "ConfigMap">>

\* What the cluster answers to the List* calls.
ScenarioALists ==
    [NoLists EXCEPT
        !["Node"] = ListOf(<<Obj("Node", "n1", "", "", {}, <<>>, {}, <<>>)>>),
        !["Pod"] = ListOf(<<PodObj("p1", "n1", LabelX, <<>>)>>),
        !["Service"] =
            ListOf(<<Obj("Service", "svc1", NS, "", {}, <<>>, LabelX, <<>>)>>)]

ListInputs ==
    {NoLists,
     ScenarioALists,
     [ScenarioALists EXCEPT !["Pod"] = ListFails],
     [NoLists EXCEPT !["Node"] = ScenarioALists["Node"],
                     !["Service"] = ListFails],
     [NoLists EXCEPT !["Node"] = ScenarioALists["Node"],
                     !["ConfigMap"] = ListOf(<<CHOOSE c \in ConfigMapObjs : TRUE>>)],
     [NoLists EXCEPT !["ConfigMap"] = ListFails],
     [NoLists EXCEPT
        !["Service"] =
            ListOf(<<Obj("Service", "svc1", NS, "", {}, <<>>, {}, <<>>)>>)],
     [NoLists EXCEPT
        !["ReplicaSet"] = ListOf(<<CHOOSE r \in ReplicaSetObjs : TRUE>>)],
     [NoLists EXCEPT
        !["Deployment"] = ListOf(<<CHOOSE d \in DeploymentObjs : TRUE>>)]}

\* The type assertion item.(map[string]interface{}) panics on an item that
\* is not a map.
AssertionPanics(items) == \E i \in 1..Len(items) : items[i].kind # "map"

RECURSIVE AddNodes(_, _, _)
AddNodes(nodes, items, i) ==
    IF i > Len(items) THEN nodes
    ELSE AddNodes(AddNode(nodes, items[i]), items, i + 1)

\* g.AddNode for the items of the first n kinds of ListOrder.
RECURSIVE AddListed(_, _, _)
AddListed(nodes, lists, n) ==
    IF n = 0 THEN nodes
    ELSE AddNodes(AddListed(nodes, lists, n - 1), lists[ListOrder[n]].items, 1)

\* The index in ListOrder of the first List* call that fails, or 7.
FirstError(lists) ==
    IF \E i \in 1..6 : lists[ListOrder[i]].err
    THEN CHOOSE i \in 1..6 :
            /\ lists[ListOrder[i]].err
            /\ \A j \in 1..(i - 1) : ~lists[ListOrder[j]].err
    ELSE 7

ListOutcome(outcome, n, nodes) ==
    [outcome |-> outcome, called |-> {ListOrder[i] : i \in 1..n}, Nodes |-> nodes]

\* listAllResources: it returns at the first List* call that fails, and it
\* panics in the type assertions of lines 68, 112, 169 and 232.  The loops
\* that derive relationships (132-250) are reached with no pod and no
\* service only and get past a replica set or a deployment in no case, so
\* they add nothing.
listAllResources(lists, nodes) ==
    LET e == FirstError(lists)
    IN  IF e = 1 THEN ListOutcome("error", 1, nodes)
        ELSE IF AssertionPanics(lists["Pod"].items)
        THEN ListOutcome("panic", 1, nodes)
        ELSE IF e <= 5 THEN ListOutcome("error", e, AddListed(nodes, lists, e - 1))
        ELSE IF AssertionPanics(lists["Service"].items)
        THEN ListOutcome("panic", 5, AddListed(nodes, lists, 4))
        ELSE IF e = 6 THEN ListOutcome("error", 6, AddListed(nodes, lists, 5))
        ELSE IF \/ AssertionPanics(lists["ReplicaSet"].items)
                \/ AssertionPanics(lists["Deployment"].items)
        THEN ListOutcome("panic", 6, AddListed(nodes, lists, 6))
        ELSE ListOutcome("ok", 6, AddListed(nodes, lists, 6))

\* main before listAllResources.
InitMain ==
    /\ Nodes = <<>>
    /\ relArray = <<>>
    /\ relLen = 0
    /\ podCache = {}
    /\ serviceCache = {}
    /\ readers = {}
    /\ wk = [k \in Kinds |-> Idle]
    /\ last = NoEvent
    /\ repeated = FALSE
    /\ nEvents = 0
    /\ emitted = NoSnapshot
    /\ proc = [Watching EXCEPT !.main = "start",
                               !.pc = [k \in Kinds |-> "off"],
                               !.emitter = "off"]

Rest ==
    UNCHANGED <<relArray, relLen, podCache, serviceCache, readers, wk, last,
                repeated, nEvents, emitted>>

\* listAllResources(ctx, client, g): a panic ends the process.
ListAll ==
    /\ proc.main = "start"
    /\ \E lists \in ListInputs :
        LET r == listAllResources(lists, Nodes)
        IN  /\ Nodes' = r.Nodes
            /\ proc' = [proc EXCEPT
                            !.main = IF r.outcome = "panic" THEN "panicked"
                                     ELSE "listed",
                            !.lists = lists,
                            !.called = r.called]
    /\ Rest

\* go watchAllResources(ctx, client, g); go emitGraph(ctx, g)
StartAll ==
    /\ proc.main = "listed"
    /\ proc' = [proc EXCEPT !.main = "waiting",
                            !.pc = [k \in Kinds |-> "connecting"],
                            !.emitter = "ticking",
                            !.lists = NoLists,
                            !.called = {}]
    /\ UNCHANGED Nodes
    /\ Rest

\* The argument of time.Sleep after a failed watch call: five seconds,
\* whatever the worker slept for before.
WatchRetrySeconds == 5

RetryDelay(previous) == WatchRetrySeconds

\* watcher, err := watchFunc(ctx) with err == nil
WatchOpens ==
    /\ ~proc.cancelled
    /\ \E k \in Kinds :
        /\ proc.pc[k] = "connecting"
        /\ proc' = [proc EXCEPT !.pc[k] = "watching", !.delay[k] = 0]
    /\ UNCHANGED Nodes
    /\ Rest

\* watcher, err := watchFunc(ctx) with err != nil, as for every call with
\* a cancelled context.
WatchFails ==
    /\ proc.cancelled \/ proc.watchErrors < MaxWatchErrors
    /\ \E k \in Kinds :
        /\ proc.pc[k] = "connecting"
        /\ proc' = [proc EXCEPT
                        !.pc[k] = "sleeping",
                        !.delay[k] = RetryDelay(@),
                        !.watchErrors = IF proc.cancelled THEN @ ELSE @ + 1]
    /\ UNCHANGED Nodes
    /\ Rest

\* time.Sleep(5 * time.Second); continue
Slept ==
    /\ \E k \in Kinds :
        /\ proc.pc[k] = "sleeping"
        /\ proc' = [proc EXCEPT !.pc[k] = "connecting"]
    /\ UNCHANGED Nodes
    /\ Rest

\* case event, ok := <-watcher.ResultChan() with !ok: return
WatcherClosed ==
    /\ \E k \in Kinds :
        /\ proc.pc[k] = "watching"
        /\ wk[k].ops = <<>>
        /\ proc' = [proc EXCEPT !.pc[k] = "returned"]
    /\ UNCHANGED Nodes
    /\ Rest

\* case <-ctx.Done(): watcher.Stop(); return
ContextDone ==
    /\ proc.cancelled
    /\ \E k \in Kinds :
        /\ proc.pc[k] = "watching"
        /\ wk[k].ops = <<>>
        /\ proc' = [proc EXCEPT !.pc[k] = "returned"]
    /\ UNCHANGED Nodes
    /\ Rest

\* emitGraph's case <-ctx.Done(): return
EmitterDone ==
    /\ proc.cancelled
    /\ proc.emitter = "ticking"
    /\ proc' = [proc EXCEPT !.emitter = "returned"]
    /\ UNCHANGED Nodes
    /\ Rest

\* <-sigChan; main returns through its deferred cancel().
Signal ==
    /\ proc.main = "waiting"
    /\ proc' = [proc EXCEPT !.main = "returning", !.cancelled = TRUE]
    /\ UNCHANGED Nodes
    /\ Rest

\* The events the watches deliver first: those of the entities that exist
\* when the watches open.
WatchEventOfMain ==
    /\ nEvents < MaxMainEvents
    /\ \E ev \in OfType(ScenarioEvents, "Added") : Watched(ev)

NextMain ==
    \/ ListAll
    \/ StartAll
    \/ WatchOpens
    \/ WatchFails
    \/ Slept
    \/ WatcherClosed
    \/ ContextDone
    \/ EmitterDone
    \/ Signal
    \/ WatchEventOfMain
    \/ HandlerStep

SpecMain == InitMain /\ [][NextMain]_vars

\* Every goroutine that can take a step takes one in the end.
SpecMainFair ==
    /\ SpecMain
    /\ WF_vars(StartAll)
    /\ WF_vars(WatchOpens \/ WatchFails)
    /\ WF_vars(Slept)
    /\ WF_vars(ContextDone)
    /\ WF_vars(EmitterDone)
    /\ WF_vars(HandlerStep)

(***************************************************************************)
(* What the claims speak of                                                *)
(***************************************************************************)
RelId(rel) == <<rel.Source, rel.Target, rel.RelationshipType>>

RelIdsOf(s) == {RelId(s.relArray[i]) : i \in 1..s.relLen}

NodeKeysOf(s) == {s.Nodes[i].Key : i \in 1..Len(s.Nodes)}

RelIds == RelIdsOf(State)

NodeKeys == NodeKeysOf(State)

KeyOf(obj) == objectToGraphNode(obj).Key

AllIdle == \A k \in Kinds : wk[k].ops = <<>>

IsUpsert(ev) == ev.type \in {"Added", "Modified"}

\* The pods the targets relationships of service svc lead to.
TargetsOf(svc) ==
    {id[2] : id \in {r \in RelIds : r[1] = KeyOf(svc) /\ r[3] = "targets"}}

\* The relationships of one type that leave key.
Outgoing(key, type) == {r \in RelIds : r[1] = key /\ r[3] = type}

(***************************************************************************)
(* C1: once a Deleted event for key K has been handled to its end, no      *)
(* relationship of the graph has K as its source or its target.            *)
(***************************************************************************)
C1_NoRelationshipOfDeleted ==
    (AllIdle /\ last.type = "Deleted") =>
        \A i \in 1..relLen : ~Involves(relArray[i], KeyOf(last.obj))

(***************************************************************************)
(* C2: in every reachable state the source and the target of every         *)
(* relationship are keys of nodes of the node list.                        *)
(***************************************************************************)
C2_EndpointsAreNodes ==
    \A i \in 1..relLen :
        /\ relArray[i].Source \in NodeKeys
        /\ relArray[i].Target \in NodeKeys

(***************************************************************************)
(* C3: after a Service Added or Modified event for S has been handled, the *)
(* targets relationships from S lead exactly to the cached pods whose      *)
(* labels contain every pair of S's selector, and to none when S has no    *)
(* selector.                                                               *)
(***************************************************************************)
C3_TargetsAfterServiceEvent ==
    (AllIdle /\ IsUpsert(last) /\ last.obj.kind = "Service") =>
        TargetsOf(last.obj) =
            IF last.obj.selector = {} THEN {}
            ELSE {KeyOf(p) : p \in {q \in podCache :
                                        Matches(last.obj.selector, q.labels)}}

(***************************************************************************)
(* C4: after a Pod Added event for a pod whose labels satisfy the          *)
(* non-empty selector of a service already known, the targets relationship *)
(* from that service to the pod exists.                                    *)
(***************************************************************************)
C4_PodAddedIsTargeted ==
    (AllIdle /\ last.type = "Added" /\ last.obj.kind = "Pod") =>
        \A svc \in serviceCache :
            (svc.selector # {} /\ Matches(svc.selector, last.obj.labels)) =>
                KeyOf(last.obj) \in TargetsOf(svc)

(***************************************************************************)
(* C5: from the state of scenario A (node n1, pod p1 on n1 labelled app=x, *)
(* service svc1 selecting app=x, relationships runs_on and targets),       *)
(* handling the Modified event that relabels p1 to app=y removes           *)
(* (svc1, p1, targets) and keeps (p1, n1, runs_on).                        *)
(***************************************************************************)
KeyN1 == EntityKey("n1", "", "Node")
KeyP1 == EntityKey("p1", NS, "Pod")
KeySvc1 == EntityKey("svc1", NS, "Service")

ScenarioA ==
    /\ AllIdle
    /\ NodeKeys = {KeyN1, KeyP1, KeySvc1}
    /\ RelIds = {<<KeyP1, KeyN1, "runs_on">>, <<KeySvc1, KeyP1, "targets">>}
    /\ podCache = {PodObj("p1", "n1", LabelX, <<>>)}
    /\ \A svc \in serviceCache : svc.selector = LabelX

C5_RelabelRemovesTargets ==
    [][(ScenarioA /\ last' = Event("Modified", PodObj("p1", "n1", LabelY, <<>>)))
            => /\ <<KeySvc1, KeyP1, "targets">> \notin RelIds'
               /\ <<KeyP1, KeyN1, "runs_on">> \in RelIds']_vars

(***************************************************************************)
(* C6: for a pod P and a service S whose selector P's labels satisfy,      *)
(* 'Service Added then Pod Added' and 'Pod Added then Service Added' from  *)
(* the same graph end with the same set of relationships.                  *)
(***************************************************************************)
AfterBoth(first, second) ==
    UNION {LET s1 == HandleEvent(State, first, o1)
           IN  {RelIdsOf(HandleEvent(s1, second, o2)) :
                    o2 \in Orders(s1.podCache)} :
           o1 \in Orders(podCache)}

C6_OrderIndependent ==
    AllIdle =>
        \A P \in PodObjs, S \in ServiceObjs :
            (S.selector # {} /\ Matches(S.selector, P.labels)) =>
                AfterBoth(Event("Added", S), Event("Added", P))
                    = AfterBoth(Event("Added", P), Event("Added", S))

(***************************************************************************)
(* C7: in every state a reader can observe, a pod is the source of at most *)
(* one owned_by relationship.                                              *)
(***************************************************************************)
C7_OneOwner ==
    \A P \in PodObjs : Cardinality(Outgoing(KeyOf(P), "owned_by")) <= 1

(***************************************************************************)
(* C8: after a Pod Added or Modified event has been handled, the pod's     *)
(* runs_on relationships lead to the node the event names and to no other  *)
(* (to none when it names no node).                                        *)
(***************************************************************************)
C8_RunsOnFollowsNodeName ==
    (AllIdle /\ IsUpsert(last) /\ last.obj.kind = "Pod") =>
        \A r \in Outgoing(KeyOf(last.obj), "runs_on") :
            r[2] = EntityKey(last.obj.nodeName, "", "Node")

(***************************************************************************)
(* C10: handling the Added event that was handled just before changes      *)
(* neither the set of node keys nor the set of relationship identities.    *)
(***************************************************************************)
C10_AddedTwice ==
    [][(AllIdle /\ nEvents' = nEvents + 1 /\ last' = last
            /\ last.type = "Added")
        => (NodeKeys' = NodeKeys /\ RelIds' = RelIds)]_vars

C10_Witness ==
    /\ AllIdle
    /\ repeated
    /\ last.type = "Added"
    /\ last.obj.kind = "Service"
    /\ TargetsOf(last.obj) # {}

(***************************************************************************)
(* C9: emitGraph never marshals a graph to which only a part of one        *)
(* event's changes has been applied: when it runs while one worker alone   *)
(* is handling an event, what it marshals is the graph as it was before    *)
(* that event or as it is after it.                                        *)
(***************************************************************************)
GraphsAfter(s, k) == {GraphOf(Run(s, k, order)) : order \in Orders(s.podCache)}

C9_NoPartialSnapshot ==
    emitted.taken =>
        \A k \in Kinds :
            (emitted.at.wk[k].ops # <<>> /\ emitted.at.wk[k].alone) =>
                \/ emitted.graph = emitted.at.wk[k].pre
                \/ emitted.graph \in GraphsAfter(emitted.at, k)

(***************************************************************************)
(* C12: from the state of scenario A, handling the Deleted event of p1     *)
(* leaves no node p1 and neither relationship, and keeps the nodes n1 and  *)
(* svc1.                                                                   *)
(***************************************************************************)
IsDeletedP1(ev) ==
    ev.type = "Deleted" /\ ev.obj.kind = "Pod" /\ ev.obj.name = "p1"

C12_DeletedPodLeavesNothing ==
    [][(ScenarioA /\ IsDeletedP1(last') /\ nEvents' = nEvents + 1)
            => /\ NodeKeys' = {KeyN1, KeySvc1}
               /\ RelIds' = {}]_vars

\* p1 has been deleted, n1 and svc1 are nodes, and the backing array still
\* shows the targets relationship the deletion removed.
C12_Witness ==
    /\ AllIdle
    /\ IsDeletedP1(last)
    /\ NodeKeys = {KeyN1, KeySvc1}
    /\ relLen = 0
    /\ \E i \in 1..Len(relArray) :
            RelId(relArray[i]) = <<KeySvc1, KeyP1, "targets">>
    /\ nEvents = 4

(***************************************************************************)
(* C13: whatever the interleaving of the workers' AddRelationship and      *)
(* RemoveRelationship calls, g.Relationships holds at most one             *)
(* relationship per (source, target, relationshipType).                    *)
(***************************************************************************)
C13_OneRelationshipPerIdentity ==
    \A i, j \in 1..relLen :
        RelId(relArray[i]) = RelId(relArray[j]) => i = j

\* AddRelationship has been called for a relationship the graph had.
C13_Witness ==
    \E i \in 1..relLen : relArray[i].Revision >= 2

(***************************************************************************)
(* C16: after a Deployment Added or Modified event has been handled, the   *)
(* uses relationships that leave the Deployment lead exactly to the        *)
(* ConfigMaps its volumes reference.                                       *)
(***************************************************************************)
ConfigMapsOf(obj) ==
    {EntityKey(obj.volumes[i].configMap, obj.namespace, "ConfigMap") :
        i \in {j \in 1..Len(obj.volumes) : obj.volumes[j].configMap # ""}}

C16_UsesFollowsVolumes ==
    (AllIdle /\ IsUpsert(last) /\ last.obj.kind = "Deployment") =>
        {r[2] : r \in Outgoing(KeyOf(last.obj), "uses")} = ConfigMapsOf(last.obj)

(***************************************************************************)
(* C17: a Service whose selector is empty or absent has no targets         *)
(* relationship once its Added or Modified event has been handled.         *)
(***************************************************************************)
C17_EmptySelectorTargetsNothing ==
    (AllIdle /\ IsUpsert(last) /\ last.obj.kind = "Service"
            /\ last.obj.selector = {}) =>
        TargetsOf(last.obj) = {}

(***************************************************************************)
(* C18: a worker takes the next event of its kind only when every graph    *)
(* and cache update of the event before it is done, and then starts on     *)
(* the updates of the event it took.                                       *)
(***************************************************************************)
C18_OneEventAtATime ==
    [][\A k \in Kinds :
            (nEvents' = nEvents + 1 /\ last'.obj.kind = k) =>
                /\ wk[k].ops = <<>>
                /\ wk'[k].ev = last'
                /\ wk'[k].ops = HandlerOps(last', k)]_vars

\* The second of two events of one kind is being handled.
C18_Witness ==
    /\ nEvents = 2
    /\ repeated
    /\ wk[last.obj.kind].ev = last
    /\ Len(wk[last.obj.kind].ops) = 1

(***************************************************************************)
(* C20: the relationship list is read and written under the graph's mutex  *)
(* only: while removeResourceRelationships is in its loop over             *)
(* g.Relationships, no other worker writes the list.                       *)
(***************************************************************************)
InRange(w) == w.ops # <<>> /\ Head(w.ops).op = "RangeIter"

\* Worker k itself takes the step.
OwnStep(k) ==
    \/ Len(wk'[k].ops) # Len(wk[k].ops)
    \/ /\ InRange(wk'[k])
       /\ Head(wk'[k].ops).i # Head(wk[k].ops).i

C20_NoWriteDuringRead ==
    [][\A k \in Kinds :
            (InRange(wk[k]) /\ ~OwnStep(k)) =>
                (relArray' = relArray /\ relLen' = relLen)]_vars

(***************************************************************************)
(* C11: after the listing that returns node n1, pod p1 (on n1, app=x, no   *)
(* owner) and service svc1 (selecting app=x), the nodes of the graph are   *)
(* n1, p1 and svc1 and its relationships are (p1, n1, runs_on) and         *)
(* (svc1, p1, targets).                                                    *)
(***************************************************************************)
C11_ScenarioAListed ==
    (proc.main # "start" /\ proc.lists = ScenarioALists) =>
        /\ NodeKeys = {KeyN1, KeyP1, KeySvc1}
        /\ RelIds = {<<KeyP1, KeyN1, "runs_on">>, <<KeySvc1, KeyP1, "targets">>}

(***************************************************************************)
(* C14: a worker whose watch ends goes on to back off, list and watch      *)
(* again: no worker has returned while the context is not cancelled.       *)
(***************************************************************************)
C14_WorkerKeepsWatching ==
    \A k \in Kinds : proc.pc[k] = "returned" => proc.cancelled

(***************************************************************************)
(* C15: once the context is cancelled, every worker and emitGraph return   *)
(* in the end, wherever they are at that moment.                           *)
(***************************************************************************)
C15_AllReturnAfterCancel ==
    proc.cancelled ~>
        (/\ \A k \in Kinds : proc.pc[k] = "returned"
         /\ proc.emitter = "returned")

(***************************************************************************)
(* C19: a List* call that fails for one kind does not keep the other kinds *)
(* from being listed: when listAllResources has returned, the List* call   *)
(* of every kind has been made.                                            *)
(***************************************************************************)
C19_OtherKindsListed ==
    (proc.main = "listed" /\ \E k \in Kinds : proc.lists[k].err) =>
        proc.called = Kinds

(***************************************************************************)
(* C21: handling a Deleted event for a key that is not a node changes      *)
(* neither the node list nor the relationship list.                        *)
(***************************************************************************)
C21_DeleteOfAbsentIsNoOp ==
    [][(AllIdle /\ nEvents' = nEvents + 1 /\ last'.type = "Deleted"
            /\ KeyOf(last'.obj) \notin NodeKeys)
        => (Nodes' = Nodes /\ Relationships' = Relationships)]_vars

\* obj lacks a field that a relationship rule reads: spec.nodeName,
\* metadata.ownerReferences, metadata.labels, spec.template.spec.volumes.
LacksField(obj) ==
    \/ obj.kind = "Pod"
            /\ (obj.nodeName = "" \/ obj.ownerReferences = <<>> \/ obj.labels = {})
    \/ obj.kind = "ReplicaSet" /\ obj.ownerReferences = <<>>
    \/ obj.kind = "Deployment" /\ obj.volumes = <<>>

(***************************************************************************)
(* C22: when every List* call of the initial listing succeeds, an entity   *)
(* of the lists that lacks a field a rule reads does not abort the         *)
(* listing, and it is a node of the graph afterwards.                      *)
(***************************************************************************)
C22_MissingFieldSkipsRuleOnly ==
    \A k \in Kinds :
        \A i \in 1..Len(proc.lists[k].items) :
            (/\ proc.main \in {"listed", "panicked"}
             /\ FirstError(proc.lists) = 7
             /\ LacksField(proc.lists[k].items[i].of))
            => (/\ proc.main = "listed"
                /\ KeyOf(proc.lists[k].items[i].of) \in NodeKeys)

\* What json.MarshalIndent(g) writes of a graph: the keys of g.Nodes and
\* the identities of g.Relationships, each in the order of its slice.
Snapshot(s) ==
    [nodes |-> [i \in 1..Len(s.Nodes) |-> s.Nodes[i].Key],
     relationships |-> [i \in 1..s.relLen |-> RelId(s.relArray[i])]]

\* The graphs two events can leave when handled one after the other.
StatesAfter(first, second) ==
    UNION {LET s1 == HandleEvent(State, first, o1)
           IN  {HandleEvent(s1, second, o2) : o2 \in Orders(s1.podCache)} :
           o1 \in Orders(podCache)}

(***************************************************************************)
(* C23: two graphs built from the same events handled in different orders  *)
(* that have the same set of nodes and the same set of relationships are   *)
(* written as the same sequences of nodes and of relationships.            *)
(***************************************************************************)
C23_SnapshotInKeyOrder ==
    AllIdle =>
        \A e1, e2 \in OfType(ScenarioEvents, "Added") :
            \A a \in StatesAfter(e1, e2), b \in StatesAfter(e2, e1) :
                (NodeKeysOf(a) = NodeKeysOf(b) /\ RelIdsOf(a) = RelIdsOf(b))
                    => Snapshot(a) = Snapshot(b)

\* listAllResources returned the error of one of its List* calls.
ListingFailed == proc.main = "listed" /\ FirstError(proc.lists) <= 6

(***************************************************************************)
(* C24: after a listing that failed on one of its List* calls, main comes  *)
(* back to the point where it calls listAllResources.                      *)
(***************************************************************************)
C24_ListingRetried == ListingFailed ~> (proc.main = "start")

\* The Revision of the node with the key, 0 when no node has it.
RevisionOf(nodes, key) ==
    IF IndexOfNode(nodes, key) = 0 THEN 0
    ELSE nodes[IndexOfNode(nodes, key)].Revision

(***************************************************************************)
(* C25: an Added or Modified event for an entity that is a node already    *)
(* leaves its node with a revision greater than the one it had.            *)
(***************************************************************************)
C25_NodeRevisionGrows ==
    [][(AllIdle /\ nEvents' = nEvents + 1 /\ IsUpsert(last')
            /\ KeyOf(last'.obj) \in NodeKeys)
        => RevisionOf(Nodes', KeyOf(last'.obj))
                > RevisionOf(Nodes, KeyOf(last'.obj))]_vars

\* Worker k is in the case of a Deleted event, past its g.RemoveNode.
PastRemoveNode(k) ==
    /\ wk[k].ev.type = "Deleted"
    /\ wk[k].ops # <<>>
    /\ Head(wk[k].ops).op # "RemoveNode"

(***************************************************************************)
(* C26: with the workers interleaved, no two nodes of the node list have   *)
(* the same key, and once the RemoveNode of a Deleted event has run, up to *)
(* the end of that event's handling, no node has the key of the event.     *)
(***************************************************************************)
C26_OneNodePerKey ==
    /\ \A i, j \in 1..Len(Nodes) : KeyEq(Nodes[i].Key, Nodes[j].Key) => i = j
    /\ \A k \in Kinds : PastRemoveNode(k) => KeyOf(wk[k].ev.obj) \notin NodeKeys
    /\ (AllIdle /\ last.type = "Deleted") => KeyOf(last.obj) \notin NodeKeys

\* A pod that was added with a node assignment has been deleted: its
\* runs_on relationship is what the emptied list left in its array.
C26_Witness ==
    /\ AllIdle
    /\ nEvents = 2
    /\ last.type = "Deleted"
    /\ last.obj.kind = "Pod"
    /\ relLen = 0
    /\ Len(relArray) >= 1
    /\ relArray[1].Source = KeyOf(last.obj)
    /\ KeyOf(last.obj) \notin NodeKeys

\* Worker k's g.RemoveNode has just returned, and the key of its event was
\* a node when the worker took the event.
RemovedPresentNode(k) ==
    /\ wk[k].ev.type = "Deleted"
    /\ wk[k].ops # <<>>
    /\ Head(wk[k].ops).op = "RangeStart"
    /\ IndexOfNode(wk[k].pre.Nodes, KeyOf(wk[k].ev.obj)) # 0

(***************************************************************************)
(* C27: when Graph.RemoveNode returns from a call for a key that was a     *)
(* node, no node has the key and no relationship has it as source or as    *)
(* target.                                                                 *)
(***************************************************************************)
C27_RemoveNodeRemovesIncident ==
    \A k \in Kinds :
        RemovedPresentNode(k) =>
            /\ KeyOf(wk[k].ev.obj) \notin NodeKeys
            /\ \A i \in 1..relLen : ~Involves(relArray[i], KeyOf(wk[k].ev.obj))

\* removeResourceRelationships(g, key) run to its end by the worker of the
\* key's kind, with no other worker in between.
removeResourceRelationships(s, key) ==
    Run([s EXCEPT !.wk[key.Type].ops = <<RangeStartOp(key)>>], key.Type, <<>>)

\* How many of the relationships of s have the identity id.
CountOf(s, id) == Cardinality({i \in 1..s.relLen : RelId(s.relArray[i]) = id})

\* The keys of the entities the watches report.
WatchedKeys == {KeyOf(o) : o \in UNION {ObjsOf(k) : k \in Kinds}}

(***************************************************************************)
(* C28: run with no concurrent mutator on the relationship list of any     *)
(* reachable graph, removeResourceRelationships(g, K) leaves no            *)
(* relationship that has K as source or target and leaves every other      *)
(* relationship in the list as often as it was.                            *)
(***************************************************************************)
C28_RemovesAllIncident ==
    AllIdle =>
        \A key \in WatchedKeys :
            LET r == removeResourceRelationships(State, key)
            IN  \A id \in RelIds \cup RelIdsOf(r) :
                    CountOf(r, id) =
                        IF id[1] = key \/ id[2] = key THEN 0
                        ELSE CountOf(State, id)

(***************************************************************************)
(* C30: handling an Added or Modified event of a Node or of a ConfigMap    *)
(* leaves the relationship list, podCache and serviceCache as they were.   *)
(***************************************************************************)
C30_NodeAndConfigMapKeepRelationships ==
    [][(AllIdle /\ nEvents' = nEvents + 1 /\ IsUpsert(last')
            /\ last'.obj.kind \in {"Node", "ConfigMap"})
        => (/\ relArray' = relArray
            /\ relLen' = relLen
            /\ podCache' = podCache
            /\ serviceCache' = serviceCache)]_vars

\* The event of a Node that a relationship of a cached pod leads to has
\* been handled.
C30_Witness ==
    /\ AllIdle
    /\ IsUpsert(last)
    /\ last.obj.kind = "Node"
    /\ KeyOf(last.obj) \in NodeKeys
    /\ podCache # {}
    /\ \E i \in 1..relLen : KeyEq(relArray[i].Target, KeyOf(last.obj))

\* Worker k's watch call fails in this step.
FailsToWatch(k) == proc.pc[k] = "connecting" /\ proc'.pc[k] = "sleeping"

(***************************************************************************)
(* C29: the wait after a failed watch call is 5 seconds when the worker    *)
(* has not waited before, and otherwise twice the wait before it, at most  *)
(* 60 seconds.                                                             *)
(***************************************************************************)
C29_BackoffDoubles ==
    [][\A k \in Kinds :
            FailsToWatch(k) =>
                proc'.delay[k] =
                    IF proc.delay[k] = 0 THEN 5
                    ELSE IF 2 * proc.delay[k] <= 60 THEN 2 * proc.delay[k]
                    ELSE 60]_vars

(***************************************************************************)
(* The workers with the two locks taken and released in steps of their     *)
(* own.  g.mu is taken inside the methods of Graph and released when they  *)
(* return; cacheMutex is write-locked around one cache update and          *)
(* read-locked around the Service case's loop over podCache.               *)
(***************************************************************************)
GraphOps == {"AddNode", "UpdateNode", "RemoveNode", "AddRel", "RemoveRel"}

\* The relationship an iteration of removeResourceRelationships looks at.
RangeRel(s, o) == (IF o.frozen THEN o.old ELSE s.relArray)[o.i]

\* Cache updates made inside the graph's critical section as well.
NeedsGraphMutexForCache(s, o) ==
    \/ o.op \in GraphOps \cup {"CachePut", "CacheDel"}
    \/ o.op = "RangeIter" /\ Involves(RangeRel(s, o), o.key)

\* The step calls a method of Graph: the methods lock g.mu, and the loop of
\* removeResourceRelationships calls RemoveRelationship for a relationship
\* that involves the key.
NeedsGraphMutex(s, o) ==
    \/ o.op \in GraphOps
    \/ o.op = "RangeIter" /\ Involves(RangeRel(s, o), o.key)

\* The step is a cache update between cacheMutex.Lock() and Unlock().
NeedsCacheLock(o) == o.op \in {"CachePut", "CacheDel"}

\* Worker k holds every lock the next step of its handler runs under.
Ready(k) ==
    /\ wk[k].ops # <<>>
    /\ NeedsGraphMutex(State, Head(wk[k].ops)) => proc.mu = k
    /\ NeedsCacheLock(Head(wk[k].ops)) => proc.cacheWriter = k
    /\ Head(wk[k].ops).op = "Scan" => proc.cacheWriter = "none"

\* The pod p1 on n1, labelled app=x, that the graph holds at the start.
FirstPod == PodObj("p1", "n1", LabelX, <<>>)

EmptyState ==
    [Nodes |-> <<>>, relArray |-> <<>>, relLen |-> 0, podCache |-> {},
     serviceCache |-> {}, readers |-> {}, wk |-> [k \in Kinds |-> Idle]]

\* The workers in their select after the Added event of FirstPod.
InitLocks ==
    /\ LET s == HandleEvent(EmptyState, Event("Added", FirstPod), <<>>)
       IN  /\ Nodes = s.Nodes
           /\ relArray = s.relArray
           /\ relLen = s.relLen
           /\ podCache = s.podCache
           /\ serviceCache = s.serviceCache
           /\ readers = s.readers
           /\ wk = s.wk
    /\ last = NoEvent
    /\ repeated = FALSE
    /\ nEvents = 0
    /\ emitted = NoSnapshot
    /\ proc = Watching

\* The events of the pod, of the service svc1 that selects it (app=x) or
\* does not (app=y), and of the node n1.
LockEvents ==
    {e \in ConcEvents :
        \/ e.obj = FirstPod
        \/ e.type = "Deleted" /\ e.obj.kind = "Pod"
        \/ e.obj.kind = "Service" /\ e.obj.selector # {}
        \/ e.type = "Added" /\ e.obj.kind = "Node"}

WatchEventLocks ==
    /\ nEvents < MaxLockEvents
    /\ \E ev \in LockEvents : Watched(ev)

Graphless ==
    UNCHANGED <<Nodes, relArray, relLen, podCache, serviceCache, readers, wk,
                last, repeated, nEvents, emitted>>

\* g.mu.Lock() returns in a worker that called a method of Graph.
LockGraph ==
    /\ \E k \in Kinds :
        /\ wk[k].ops # <<>>
        /\ NeedsGraphMutex(State, Head(wk[k].ops))
        /\ proc.mu = "none"
        /\ proc' = [proc EXCEPT !.mu = k]
    /\ Graphless

\* cacheMutex.Lock() returns in a worker about to update a cache.
LockCache ==
    /\ \E k \in Kinds :
        /\ wk[k].ops # <<>>
        /\ NeedsCacheLock(Head(wk[k].ops))
        /\ NeedsGraphMutex(State, Head(wk[k].ops)) => proc.mu = k
        /\ proc.cacheWriter = "none"
        /\ readers = {}
        /\ proc' = [proc EXCEPT !.cacheWriter = k]
    /\ Graphless

\* The step under a lock, and the Unlock() that ends it.
LockedStep ==
    /\ \E k \in Kinds :
        /\ Ready(k)
        /\ proc.mu = k \/ proc.cacheWriter = k
        /\ \E order \in Orders(podCache) : Becomes(Step(State, k, order))
        /\ proc' = [proc EXCEPT
                        !.mu = IF @ = k THEN "none" ELSE @,
                        !.cacheWriter = IF @ = k THEN "none" ELSE @]
    /\ UNCHANGED <<last, repeated, nEvents, emitted>>

\* A step that takes neither g.mu nor the write lock: cacheMutex.RLock(),
\* cacheMutex.RUnlock(), and the loop of removeResourceRelationships at a
\* relationship that does not involve the key.
UnlockedStep ==
    /\ \E k \in Kinds :
        /\ Ready(k)
        /\ proc.mu # k
        /\ proc.cacheWriter # k
        /\ \E order \in Orders(podCache) : Becomes(Step(State, k, order))
    /\ UNCHANGED <<last, repeated, nEvents, emitted, proc>>

NextLocks ==
    \/ WatchEventLocks
    \/ LockGraph
    \/ LockCache
    \/ LockedStep
    \/ UnlockedStep

SpecLocks == InitLocks /\ [][NextLocks]_vars

\* A Lock() or RLock() that can return does return: the mutexes of sync
\* hand a lock over to a goroutine that waits for it.
SpecLocksFair ==
    /\ SpecLocks
    /\ WF_vars(LockGraph)
    /\ WF_vars(LockCache)
    /\ WF_vars(LockedStep)
    /\ WF_vars(UnlockedStep)

\* Worker k gets cacheMutex, for reading or for writing, in this step.
AcquiresCacheMutex(k) ==
    \/ k \notin readers /\ k \in readers'
    \/ proc.cacheWriter # k /\ proc'.cacheWriter = k

\* Worker k has called Lock() or RLock() on a lock it does not hold yet.
WaitsForGraphMutex(k) ==
    /\ wk[k].ops # <<>>
    /\ NeedsGraphMutex(State, Head(wk[k].ops))
    /\ proc.mu # k

WaitsForCacheLock(k) ==
    /\ wk[k].ops # <<>>
    /\ NeedsCacheLock(Head(wk[k].ops))
    /\ proc.cacheWriter # k

WaitsForCacheRLock(k) == wk[k].ops # <<>> /\ Head(wk[k].ops).op = "Scan"

\* A worker that waits goes on waiting until it has the lock.
WaitsForLock(k) ==
    \/ WaitsForGraphMutex(k)
    \/ WaitsForCacheLock(k)
    \/ WaitsForCacheRLock(k)

(***************************************************************************)
(* C31: no worker gets cacheMutex while it holds the graph's mutex, so a   *)
(* worker that holds both took cacheMutex first, and no worker waits for   *)
(* one of the two locks for ever.                                          *)
(***************************************************************************)
C31_LocksNeverDeadlock ==
    /\ [][\A k \in Kinds : AcquiresCacheMutex(k) => proc.mu # k]_vars
    /\ \A k \in Kinds : []<>~WaitsForLock(k)

\* The Service worker is inside g.mu within its read-locked loop while the
\* Pod worker waits for cacheMutex.Lock().
C31_Witness ==
    /\ proc.mu = "Service"
    /\ "Service" \in readers
    /\ WaitsForCacheLock("Pod")

\* The two events handled to their end were the Deleted event of the pod
\* the graph started with and an Added or Modified event of a service.
PodDeletedServiceUpserted ==
    /\ AllIdle
    /\ nEvents = 2
    /\ podCache = {}
    /\ serviceCache # {}

\* The pods of podCache that the selector of svc matches.
CachedMatches(svc) ==
    {KeyOf(p) : p \in {q \in podCache : Matches(svc.selector, q.labels)}}

(***************************************************************************)
(* C32: when a Service Added or Modified event and the Deleted event of a  *)
(* cached pod have both been handled to their end, in whatever way the two *)
(* workers interleaved, the targets relationships of the service lead to   *)
(* the pods of podCache that match its selector, so none leads to the      *)
(* deleted pod.                                                            *)
(***************************************************************************)
C32_TargetsAfterConcurrentDelete ==
    PodDeletedServiceUpserted =>
        \A svc \in serviceCache : TargetsOf(svc) = CachedMatches(svc)

====
